---- MODULE Spec2Model ----
(***************************************************************************)
(* bureau-mcp (src/index.js): task directories, the `current` symlink and  *)
(* report-file numbering, kept in the _tasks directory tree.               *)
(*                                                                         *)
(* Strings are sequences of UTF-16 code units (integers), so that          *)
(* formatting, regular-expression matching, sorting and parsing are        *)
(* modelled by what they do to the characters.                             *)
(***************************************************************************)
EXTENDS Integers, Sequences, FiniteSets, TLC

(***************************************************************************)
(* Bounds of the model.                                                    *)
(***************************************************************************)
\* The clock starts on day BaseDay of 2025 (0 = 2025-01-01).
BaseDay == 273
\* At most MaxSteps steps in one run: tool calls, out-of-band changes of the
\* tree (agent writes, removals, relinks) and midnights.
MaxSteps == 4
\* A run that starts on a day already busy takes the last BusySteps of them.
BusySteps == 2
\* The name codec is applied alone to the indexes 0..MaxIndex.
MaxIndex == 30
\* At most MaxCalls tool calls are begun in a run of interleaved calls.
MaxCalls == 3

(***************************************************************************)
(* Characters.                                                             *)
(***************************************************************************)
CharZero == 48
CharNine == 57
CharHyphen == 45
CharDot == 46
CharSlash == 47
CharA == 97
CharB == 98
CharZ == 122

IsDigit(c) == c >= CharZero /\ c <= CharNine

\* "_tasks"
TasksName == <<95, 116, 97, 115, 107, 115>>
\* ".md"
DotMd == <<CharDot, 109, 100>>

RECURSIVE LexLessFrom(_, _, _)
LexLessFrom(a, b, i) ==
  IF i > Len(a) THEN i <= Len(b)
  ELSE IF i > Len(b) THEN FALSE
  ELSE IF a[i] # b[i] THEN a[i] < b[i]
  ELSE LexLessFrom(a, b, i + 1)

\* JavaScript's default string order: by code unit, a proper prefix first.
LexLess(a, b) == LexLessFrom(a, b, 1)

RECURSIVE Listing(_)
\* The entries of a directory, as readdir lists them (in no promised order).
Listing(S) ==
  IF S = {} THEN <<>>
  ELSE LET x == CHOOSE y \in S : TRUE IN <<x>> \o Listing(S \ {x})

\* Array.prototype.sort() of a listing of distinct names.
SortNames(S) == SortSeq(Listing(S), LexLess)

StartsWith(s, p) == Len(s) >= Len(p) /\ SubSeq(s, 1, Len(p)) = p
EndsWith(s, p) == Len(s) >= Len(p) /\ SubSeq(s, Len(s) - Len(p) + 1, Len(s)) = p

\* The line terminators that `.` of a regular expression does not match.
IsLineTerminator(c) == c \in {10, 13, 8232, 8233}
NoLineTerminator(s) == \A i \in 1..Len(s) : ~IsLineTerminator(s[i])

RECURSIVE Digits(_)
\* String(n) of a non-negative integer.
Digits(n) == IF n < 10 THEN <<CharZero + n>> ELSE Digits(n \div 10) \o <<CharZero + (n % 10)>>

RECURSIVE PadStart(_, _, _)
\* s.padStart(w, c)
PadStart(s, w, c) == IF Len(s) >= w THEN s ELSE PadStart(<<c>> \o s, w, c)

RECURSIVE ParseInt(_)
\* parseInt(s, 10) of a run of digits.
ParseInt(s) ==
  IF Len(s) = 0 THEN 0
  ELSE 10 * ParseInt(SubSeq(s, 1, Len(s) - 1)) + (s[Len(s)] - CharZero)

(***************************************************************************)
(* The calendar: new Date().toISOString().split('T')[0] on day n of 2025.  *)
(***************************************************************************)
MonthLen == <<31, 28, 31, 30, 31, 30, 31, 31, 30, 31, 30, 31>>

RECURSIVE MonthOf(_, _)
MonthOf(n, m) == IF n < MonthLen[m] THEN <<m, n + 1>> ELSE MonthOf(n - MonthLen[m], m + 1)

FormatDate(n) ==
  LET md == MonthOf(n, 1)
  IN  <<50, 48, 50, 53, CharHyphen>> \o PadStart(Digits(md[1]), 2, CharZero)
        \o <<CharHyphen>> \o PadStart(Digits(md[2]), 2, CharZero)

\* The dates of 2025, tabulated.
DateTable == [n \in 0..364 |-> FormatDate(n)]

DateStr(n) == DateTable[n]

(***************************************************************************)
(* Name codec.                                                             *)
(***************************************************************************)
\* A variant that wraps around the alphabet instead of running past 'z'.
getDateSuffix_Wraps(today, index) ==
  IF index = 0 THEN DateStr(today) ELSE DateStr(today) \o <<CharA + (index % 26)>>

\* getDateSuffix(index), evaluated on day `today`.
getDateSuffix(today, index) ==
  IF index = 0 THEN DateStr(today) ELSE DateStr(today) \o <<CharA + index>>

\* /^\d{4}-\d{2}-\d{2}/ : the first ten characters are a date.
IsDateAt(s) ==
  /\ Len(s) >= 10
  /\ \A i \in {1, 2, 3, 4, 6, 7, 9, 10} : IsDigit(s[i])
  /\ s[5] = CharHyphen /\ s[8] = CharHyphen

NoMatch == [matched |-> FALSE, datePrefix |-> <<>>, slug |-> <<>>]

\* parseTaskDirName(dirName): /^(\d{4}-\d{2}-\d{2}[b-z]?)-(.+)$/ .
\* The optional letter is tried first (greedy), then the match without it.
parseTaskDirName(dirName) ==
  LET rest(k) == SubSeq(dirName, k + 1, Len(dirName))
      tail(k) == /\ Len(dirName) >= k + 1
                 /\ dirName[k] = CharHyphen
                 /\ NoLineTerminator(rest(k))
  IN  IF ~IsDateAt(dirName) THEN NoMatch
      ELSE IF /\ Len(dirName) >= 11
              /\ dirName[11] >= CharB /\ dirName[11] <= CharZ
              /\ tail(12)
           THEN [matched |-> TRUE, datePrefix |-> SubSeq(dirName, 1, 11), slug |-> rest(12)]
      ELSE IF tail(11)
           THEN [matched |-> TRUE, datePrefix |-> SubSeq(dirName, 1, 10), slug |-> rest(11)]
      ELSE NoMatch

(***************************************************************************)
(* State: the _tasks tree and the outcome of the latest tool call.         *)
(***************************************************************************)
VARIABLES
  day,         \* the current UTC day (index into 2025)
  rootExists,  \* whether TASKS_DIR exists
  dirs,        \* names of the directories in TASKS_DIR
  files,       \* files[d]: names of the entries of directory d
  link,        \* target of the `current` symlink, or NoLink
  last,        \* the latest tool call and its response
  steps,       \* number of steps taken
  justCalled,  \* whether the latest step was a tool call
  startedToday,\* history: successful start_new_task calls today, per label
  clean,       \* history: no out-of-band change of the directories in TASKS_DIR
  proposal,    \* history: the latest path proposed by start_new_report_file
  codec,       \* the latest inputs and outputs of the name codec, applied alone
  calls,       \* calls[p]: the tool call client p has in flight, step by step
  rootIsFile   \* whether a regular file is in the place of TASKS_DIR

vars == <<day, rootExists, dirs, files, link, last, steps, justCalled,
          startedToday, clean, proposal, codec, calls, rootIsFile>>

NoLink == <<>>

(***************************************************************************)
(* Path helpers.                                                           *)
(***************************************************************************)
RECURSIVE LastSlash(_, _)
LastSlash(s, i) == IF i = 0 THEN 0 ELSE IF s[i] = CharSlash THEN i ELSE LastSlash(s, i - 1)

\* path.basename of a path with no trailing separator.
Basename(p) == SubSeq(p, LastSlash(p, Len(p)) + 1, Len(p))

\* path.join(a, b) of two normalized relative paths.
PathJoin(a, b) == a \o <<CharSlash>> \o b

(***************************************************************************)
(* Directory catalog.                                                      *)
(***************************************************************************)
\* getAllTaskDirs(): the directories of TASKS_DIR whose name parses, sorted.
\* (The call also creates TASKS_DIR; the handlers that use it set rootExists.)
getAllTaskDirs(ds) == SortNames({d \in ds : parseTaskDirName(d).matched})

\* Whether TASKS_DIR is a directory after getAllTaskDirs(): its mkdir creates
\* the directory, and throws into the catch when a file is in its place.
ListedRoot == ~rootIsFile

InSeq(x, s) == \E i \in 1..Len(s) : s[i] = x

(***************************************************************************)
(* Current-pointer store.                                                  *)
(***************************************************************************)
NoDir == <<>>

\* getCurrentTaskDir(): readlink, then the base name of the target; null
\* (NoDir) when readlink fails.
getCurrentTaskDir(lnk) == IF lnk = NoLink THEN NoDir ELSE Basename(lnk)

(***************************************************************************)
(* Report catalog.                                                         *)
(***************************************************************************)
WindowLimit == 50
WindowHead == 20
WindowTail == 30

\* /^\d{3}-.*\.md$/
IsReportName(name) ==
  /\ Len(name) >= 7
  /\ \A i \in 1..3 : IsDigit(name[i])
  /\ name[4] = CharHyphen
  /\ EndsWith(name, DotMd)
  /\ NoLineTerminator(SubSeq(name, 5, Len(name) - 3))

\* getReportFiles(taskDir): readdir of TASKS_DIR/taskDir, filtered, sorted and
\* cut to the first 20 and last 30 when over 50; [] when readdir fails.
getReportFiles(ds, fs, taskDir) ==
  IF taskDir \notin ds THEN <<>>
  ELSE LET reportFiles == SortNames({f \in fs[taskDir] : IsReportName(f)})
           n == Len(reportFiles)
       IN  IF n <= WindowLimit THEN reportFiles
           ELSE SubSeq(reportFiles, 1, WindowHead)
                  \o SubSeq(reportFiles, n - WindowTail + 1, n)

NoInfo == [task_slug |-> <<>>, reports_dir |-> <<>>, report_file_names |-> <<>>]

\* getTaskInfo(taskDir): [found, info]; null (found = FALSE) when taskDir is
\* null or does not parse.
getTaskInfo(ds, fs, taskDir) ==
  IF taskDir = NoDir THEN [found |-> FALSE, info |-> NoInfo]
  ELSE LET parsed == parseTaskDirName(taskDir)
       IN  IF ~parsed.matched THEN [found |-> FALSE, info |-> NoInfo]
           ELSE [found |-> TRUE,
                 info |-> [task_slug |-> parsed.slug,
                           reports_dir |-> PathJoin(TasksName, taskDir),
                           report_file_names |-> getReportFiles(ds, fs, taskDir)]]

(***************************************************************************)
(* Allocators.                                                             *)
(***************************************************************************)
MaxProbe == 26

RECURSIVE ProbeFrom(_, _, _, _, _)
\* The loop of findNextTaskDirName from index i on; NoDir when it throws.
\* `today` is the day read before the loop, `now` the day getDateSuffix reads.
ProbeFrom(allDirs, today, now, slug, i) ==
  IF i >= MaxProbe THEN NoDir
  ELSE LET datePrefix == getDateSuffix(now, i)
           candidateName == datePrefix \o <<CharHyphen>> \o slug
       IN  IF ~StartsWith(datePrefix, DateStr(today)) THEN NoDir
           ELSE IF ~InSeq(candidateName, allDirs) THEN candidateName
           ELSE ProbeFrom(allDirs, today, now, slug, i + 1)

\* A variant that probes against an empty listing instead of the live one.
findNextTaskDirName_NoListing(ds, today, now, slug) ==
  ProbeFrom(<<>>, today, now, slug, 0)

\* findNextTaskDirName(slug)
findNextTaskDirName(ds, today, now, slug) ==
  ProbeFrom(getAllTaskDirs(ds), today, now, slug, 0)

RECURSIVE MaxOf(_)
MaxOf(s) == IF Len(s) = 1 THEN s[1]
            ELSE LET m == MaxOf(Tail(s)) IN IF s[1] > m THEN s[1] ELSE m

\* The number findNextReportNumber reads from one name: /^(\d{3})-/ .
ReportNumberOf(name) ==
  IF Len(name) >= 4 /\ (\A i \in 1..3 : IsDigit(name[i])) /\ name[4] = CharHyphen
  THEN ParseInt(SubSeq(name, 1, 3))
  ELSE 0

\* findNextReportNumber(taskDir)
findNextReportNumber(ds, fs, taskDir) ==
  LET reportFiles == getReportFiles(ds, fs, taskDir)
  IN  IF Len(reportFiles) = 0 THEN 1
      ELSE MaxOf([i \in 1..Len(reportFiles) |-> ReportNumberOf(reportFiles[i])]) + 1

RECURSIVE ScanBack(_, _, _)
\* The loop of findTaskDirBySlug from position i down; NoDir for null.
ScanBack(allDirs, slug, i) ==
  IF i < 1 THEN NoDir
  ELSE LET parsed == parseTaskDirName(allDirs[i])
       IN  IF parsed.matched /\ parsed.slug = slug THEN allDirs[i]
           ELSE ScanBack(allDirs, slug, i - 1)

RECURSIVE ScanBackSuffix(_, _, _)
ScanBackSuffix(allDirs, slug, i) ==
  IF i < 1 THEN NoDir
  ELSE LET parsed == parseTaskDirName(allDirs[i])
       IN  IF parsed.matched /\ EndsWith(parsed.slug, slug) THEN allDirs[i]
           ELSE ScanBackSuffix(allDirs, slug, i - 1)

\* A variant that accepts a label ending in the requested one.
findTaskDirBySlug_SuffixMatch(ds, slug) ==
  LET allDirs == getAllTaskDirs(ds) IN ScanBackSuffix(allDirs, slug, Len(allDirs))

RECURSIVE ScanForward(_, _, _)
ScanForward(allDirs, slug, i) ==
  IF i > Len(allDirs) THEN NoDir
  ELSE LET parsed == parseTaskDirName(allDirs[i])
       IN  IF parsed.matched /\ parsed.slug = slug THEN allDirs[i]
           ELSE ScanForward(allDirs, slug, i + 1)

\* A variant that scans from the front and so returns the first match.
findTaskDirBySlug_FirstMatch(ds, slug) == ScanForward(getAllTaskDirs(ds), slug, 1)

\* findTaskDirBySlug(slug)
findTaskDirBySlug(ds, slug) ==
  LET allDirs == getAllTaskDirs(ds) IN ScanBack(allDirs, slug, Len(allDirs))

\* A variant without the unlink: an existing link is left as it is.
updateCurrentSymlink_KeepsExisting(lnk, taskDir) == IF lnk = NoLink THEN taskDir ELSE lnk

\* A variant that stops after the unlink.
updateCurrentSymlink_UnlinkOnly(lnk, taskDir) == NoLink

\* updateCurrentSymlink(taskDir): unlink (errors ignored), then symlink.
updateCurrentSymlink(lnk, taskDir) == taskDir

\* `${String(nextNumber).padStart(3, '0')}-${suffix}.md`
ReportFileName(nextNumber, suffix) ==
  PadStart(Digits(nextNumber), 3, CharZero) \o <<CharHyphen>> \o suffix \o DotMd

(***************************************************************************)
(* Inputs of the model.                                                    *)
(***************************************************************************)
\* "x" and "b-x": slug-shaped labels, one a suffix of the other; <<>> is the
\* missing or empty argument.
LabelX == <<120>>
LabelBX == <<CharB, CharHyphen, 120>>
Labels == {LabelX, LabelBX}
LabelArgs == Labels \cup {<<>>}

\* "a"
SuffixA == <<CharA>>
SuffixArgs == {SuffixA, <<>>}

\* "001-a.md", "002-b.md", "42-c.md", "999-a.md"
File001a == <<48, 48, 49, CharHyphen, 97>> \o DotMd
File002b == <<48, 48, 50, CharHyphen, 98>> \o DotMd
File42c == <<52, 50, CharHyphen, 99>> \o DotMd
File999a == <<57, 57, 57, CharHyphen, 97>> \o DotMd
\* What an agent may write by hand into the current task directory.
AgentFiles == {File42c, File999a}

\* "notes": a directory of TASKS_DIR that is no task directory.
NotesDir == <<110, 111, 116, 101, 115>>
\* Yesterday's task "x", with two reports.
OldTaskX == DateStr(BaseDay - 1) \o <<CharHyphen>> \o LabelX

\* A long task of two days ago, "big", holding 51 agent-numbered reports:
\* 001..020, 1000 and 101..130, each "-a.md".
BigTask == DateStr(BaseDay - 2) \o <<CharHyphen, 98, 105, 103>>
NumberedFile(digits) == digits \o <<CharHyphen>> \o SuffixA \o DotMd
BigFiles ==
  {NumberedFile(PadStart(Digits(n), 3, CharZero)) : n \in (1..20) \cup (101..130)}
    \cup {NumberedFile(Digits(1000))}

\* The directories of the first BusyCount tasks "x" of day BaseDay.
BusyCount == MaxProbe - 1
BusyDirName(i) == getDateSuffix(BaseDay, i) \o <<CharHyphen>> \o LabelX
BusyTasks == {BusyDirName(i) : i \in 0..(BusyCount - 1)}

\* Targets an out-of-band relink may give the `current` symlink.
OobTargets == {NotesDir}

\* `repeats` counts the successful start_new_report_file calls that came
\* directly before the latest one, with no other step in between.
NoProposal == [valid |-> FALSE, dir |-> NoDir, number |-> 0, file |-> <<>>,
               repeats |-> 0]

Response(op, arg) ==
  [op |-> op, arg |-> arg, isError |-> FALSE, error |-> "",
   found |-> FALSE, info |-> NoInfo, slugs |-> <<>>,
   path |-> <<>>, number |-> 0, dir |-> NoDir]

Failure(op, arg, message) == [Response(op, arg) EXCEPT !.isError = TRUE, !.error = message]

(***************************************************************************)
(* The name codec applied alone: getDateSuffix for two indexes of one day, *)
(* and parseTaskDirName on the name made of the first prefix and a label.  *)
(***************************************************************************)
\* "a\nb": a label with a line feed in it.
LabelLines == <<97, 10, 98>>
CodecLabels == <<LabelX, LabelBX, LabelLines>>

\* `${datePrefix}-${slug}`
CandidateName(datePrefix, slug) == datePrefix \o <<CharHyphen>> \o slug

Encode(today, index, other, l) ==
  LET datePrefix == getDateSuffix(today, index)
      candidateName == CandidateName(datePrefix, CodecLabels[l])
  IN  [index |-> index, other |-> other, l |-> l, label |-> CodecLabels[l],
       datePrefix |-> datePrefix, otherPrefix |-> getDateSuffix(today, other),
       dirName |-> candidateName, parsed |-> parseTaskDirName(candidateName)]

(***************************************************************************)
(* Tool calls in flight: the clients whose calls the server (or several    *)
(* servers on one project) runs interleaved at their awaits.               *)
(***************************************************************************)
Clients == {1, 2}

IdleCall == [pc |-> "idle", op |-> "none", slug |-> <<>>, dir |-> NoDir,
             response |-> Response("none", <<>>)]
NoCalls == [p \in Clients |-> IdleCall]

(***************************************************************************)
(* Initial states: a project with no _tasks directory yet, one with        *)
(* yesterday's task current and a stray directory, or one on a busy day    *)
(* (Init); a project with a long task current (InitLarge).                 *)
(***************************************************************************)
InitTree ==
  \/ /\ rootExists = FALSE
     /\ dirs = {}
     /\ files = [d \in {} |-> {}]
     /\ link = NoLink
  \/ /\ rootExists = TRUE
     /\ dirs = {OldTaskX, NotesDir}
     /\ files = [d \in {OldTaskX, NotesDir} |->
                  IF d = OldTaskX THEN {File001a, File002b} ELSE {File001a}]
     /\ link = OldTaskX

InitLargeTree ==
  /\ rootExists = TRUE
  /\ dirs = {BigTask}
  /\ files = [d \in {BigTask} |-> BigFiles]
  /\ link = BigTask

NoneStartedToday == [l \in Labels |-> 0]

\* A busy day: start_new_task("x") has succeeded BusyCount times today, and
\* nothing else has happened in the tree.
InitBusyDay ==
  /\ rootExists = TRUE
  /\ dirs = BusyTasks
  /\ files = [d \in BusyTasks |-> {}]
  /\ link = BusyDirName(BusyCount - 1)
  /\ startedToday = [NoneStartedToday EXCEPT ![LabelX] = BusyCount]

InitRun ==
  /\ day = BaseDay
  /\ last = Response("none", <<>>)
  /\ justCalled = FALSE
  /\ clean = TRUE
  /\ proposal = NoProposal
  /\ codec = Encode(BaseDay, 0, 0, 1)
  /\ calls = NoCalls

InitRest == InitRun /\ rootIsFile = FALSE

Init ==
  /\ \/ InitTree /\ startedToday = NoneStartedToday /\ steps = 0
     \/ InitBusyDay /\ steps = MaxSteps - BusySteps
  /\ InitRest

InitLarge == InitLargeTree /\ startedToday = NoneStartedToday /\ steps = 0 /\ InitRest

(***************************************************************************)
(* The tool handlers (CallToolRequestSchema), one action per tool.         *)
(***************************************************************************)
History == <<startedToday, clean, proposal>>
Tree == <<rootExists, dirs, files, link>>

\* What the tool handlers and the environment of a project leave alone: the
\* codec applied alone, the calls in flight, and what is in the place of
\* TASKS_DIR.
Apart == <<codec, calls, rootIsFile>>

\* A tool call, whatever the clock does meanwhile.
Counted ==
  /\ steps < MaxSteps /\ steps' = steps + 1 /\ justCalled' = TRUE
  /\ UNCHANGED Apart

\* A tool call within one day.
Called == Counted /\ day' = day

\* case 'current_task'
CurrentTaskResponse(ds, fs, lnk) ==
  LET taskDir == getCurrentTaskDir(lnk)
      taskInfo == getTaskInfo(ds, fs, taskDir)
  IN  IF ~taskInfo.found
      THEN [Response("current_task", <<>>) EXCEPT !.error = "No current task"]
      ELSE [Response("current_task", <<>>) EXCEPT
              !.found = TRUE, !.info = taskInfo.info, !.dir = taskDir]

\* A variant that removes a pointer whose target is not there.
CurrentTask_Repairs ==
  /\ Called
  /\ last' = CurrentTaskResponse(dirs, files, link)
  /\ link' = IF getCurrentTaskDir(link) \in dirs THEN link ELSE NoLink
  /\ UNCHANGED <<rootExists, dirs, files, History>>

CurrentTask ==
  /\ Called
  /\ last' = CurrentTaskResponse(dirs, files, link)
  /\ UNCHANGED <<Tree, History>>

\* fs.mkdir(taskPath, { recursive: true }): an existing directory is kept.
MkdirFiles(ds, fs, name) == [d \in ds \cup {name} |-> IF d \in ds THEN fs[d] ELSE {}]

\* case 'start_new_task'
\* Midnight (UTC) may pass between the read of `today` and the read of the
\* clock in getDateSuffix: `now` is the day the latter sees.
StartNewTask(task_slug) ==
  /\ Counted
  /\ IF task_slug = <<>>
     THEN /\ last' = Failure("start_new_task", task_slug, "task_slug is required")
          /\ UNCHANGED <<day, Tree, History>>
     ELSE \E now \in {day, day + 1} :
          LET taskDirName == findNextTaskDirName(dirs, day, now, task_slug)
          IN  /\ day' = now
              /\ rootExists' = ListedRoot
              /\ IF taskDirName = NoDir
                 THEN /\ last' = Failure("start_new_task", task_slug,
                                         "Too many tasks for today (max 26)")
                      /\ startedToday' =
                           IF now = day THEN startedToday ELSE NoneStartedToday
                      /\ UNCHANGED <<dirs, files, link, clean, proposal>>
                 ELSE IF rootIsFile
                 THEN /\ last' = Failure("start_new_task", task_slug,
                                         "ENOTDIR: not a directory, mkdir")
                      /\ UNCHANGED <<dirs, files, link, History>>
                 ELSE /\ dirs' = dirs \cup {taskDirName}
                      /\ files' = MkdirFiles(dirs, files, taskDirName)
                      /\ link' = updateCurrentSymlink(link, taskDirName)
                      /\ LET taskInfo == getTaskInfo(dirs', files', taskDirName)
                         IN  last' = [Response("start_new_task", task_slug) EXCEPT
                                        !.found = taskInfo.found, !.info = taskInfo.info,
                                        !.dir = taskDirName]
                      /\ startedToday' =
                           IF task_slug \in Labels
                           THEN [startedToday EXCEPT ![task_slug] = @ + 1]
                           ELSE startedToday
                      /\ UNCHANGED <<clean, proposal>>

\* A variant that lists the task directories before it checks its argument.
SwitchTask_ListsFirst(task_slug) ==
  /\ Called
  /\ IF task_slug = <<>>
     THEN /\ last' = Failure("switch_task", task_slug, "task_slug is required")
          /\ rootExists' = ListedRoot
          /\ UNCHANGED <<dirs, files, link, History>>
     ELSE LET taskDir == findTaskDirBySlug(dirs, task_slug)
          IN  /\ rootExists' = ListedRoot
              /\ IF taskDir = NoDir
                 THEN /\ last' = Failure("switch_task", task_slug, "Task not found")
                      /\ UNCHANGED <<dirs, files, link, History>>
                 ELSE /\ link' = updateCurrentSymlink(link, taskDir)
                      /\ LET taskInfo == getTaskInfo(dirs, files, taskDir)
                         IN  last' = [Response("switch_task", task_slug) EXCEPT
                                        !.found = taskInfo.found, !.info = taskInfo.info,
                                        !.dir = taskDir]
                      /\ UNCHANGED <<dirs, files, History>>

\* case 'switch_task'
SwitchTask(task_slug) ==
  /\ Called
  /\ IF task_slug = <<>>
     THEN /\ last' = Failure("switch_task", task_slug, "task_slug is required")
          /\ UNCHANGED <<Tree, History>>
     ELSE LET taskDir == findTaskDirBySlug(dirs, task_slug)
          IN  /\ rootExists' = ListedRoot
              /\ IF taskDir = NoDir
                 THEN /\ last' = Failure("switch_task", task_slug, "Task not found")
                      /\ UNCHANGED <<dirs, files, link, History>>
                 ELSE /\ link' = updateCurrentSymlink(link, taskDir)
                      /\ LET taskInfo == getTaskInfo(dirs, files, taskDir)
                         IN  last' = [Response("switch_task", task_slug) EXCEPT
                                        !.found = taskInfo.found, !.info = taskInfo.info,
                                        !.dir = taskDir]
                      /\ UNCHANGED <<dirs, files, History>>

RecentDays == 30

\* parsed.datePrefix.replace(/[b-z]$/, '')
DateOnly(datePrefix) ==
  LET n == Len(datePrefix)
  IN  IF n >= 1 /\ datePrefix[n] >= CharB /\ datePrefix[n] <= CharZ
      THEN SubSeq(datePrefix, 1, n - 1)
      ELSE datePrefix

\* A variant that compares with > instead of >=.
getRecentTaskDirs_Exclusive(ds, today) ==
  LET allDirs == getAllTaskDirs(ds)
      cutoffStr == DateStr(today - RecentDays)
  IN  SelectSeq(allDirs,
        LAMBDA dirName :
          LET parsed == parseTaskDirName(dirName)
          IN  /\ parsed.matched
              /\ LexLess(cutoffStr, DateOnly(parsed.datePrefix)))

\* getRecentTaskDirs(): the sorted task directories dated on or after the
\* cutoff, the day thirty days before today.
getRecentTaskDirs(ds, today) ==
  LET allDirs == getAllTaskDirs(ds)
      cutoffStr == DateStr(today - RecentDays)
  IN  SelectSeq(allDirs,
        LAMBDA dirName :
          LET parsed == parseTaskDirName(dirName)
          IN  /\ parsed.matched
              /\ ~LexLess(DateOnly(parsed.datePrefix), cutoffStr))

\* A variant in which a failure to list TASKS_DIR reaches the caller.
ListRecentTasks_Surfaces ==
  /\ Called
  /\ rootExists' = ListedRoot
  /\ LET recentDirs == getRecentTaskDirs(dirs, day)
     IN  last' = IF rootIsFile
                 THEN Failure("list_recent_tasks", <<>>,
                              "EEXIST: file already exists, mkdir")
                 ELSE [Response("list_recent_tasks", <<>>) EXCEPT
                         !.slugs = [i \in 1..Len(recentDirs) |->
                                      parseTaskDirName(recentDirs[i]).slug]]
  /\ UNCHANGED <<dirs, files, link, History>>

\* case 'list_recent_tasks'
ListRecentTasks ==
  /\ Called
  /\ rootExists' = ListedRoot
  /\ LET recentDirs == getRecentTaskDirs(dirs, day)
     IN  last' = [Response("list_recent_tasks", <<>>) EXCEPT
                    !.slugs = [i \in 1..Len(recentDirs) |->
                                 parseTaskDirName(recentDirs[i]).slug]]
  /\ UNCHANGED <<dirs, files, link, History>>

\* The successful start_new_report_file calls directly before this step.
Repeats ==
  IF justCalled /\ last.op = "start_new_report_file" /\ ~last.isError
  THEN proposal.repeats + 1
  ELSE 0

\* A variant that also creates the file it names.
StartNewReportFile_Creates(suffix) ==
  /\ Called
  /\ UNCHANGED <<rootExists, dirs, link, startedToday, clean>>
  /\ IF suffix = <<>>
     THEN /\ last' = Failure("start_new_report_file", suffix, "suffix is required")
          /\ UNCHANGED <<files, proposal>>
     ELSE LET taskDir == getCurrentTaskDir(link)
          IN  IF taskDir = NoDir
              THEN /\ last' = Failure("start_new_report_file", suffix, "No current task")
                   /\ UNCHANGED <<files, proposal>>
              ELSE LET nextNumber == findNextReportNumber(dirs, files, taskDir)
                       fileName == ReportFileName(nextNumber, suffix)
                       filePath == PathJoin(PathJoin(TasksName, taskDir), fileName)
                   IN  /\ last' = [Response("start_new_report_file", suffix) EXCEPT
                                     !.path = filePath, !.number = nextNumber,
                                     !.dir = taskDir]
                       /\ proposal' = [valid |-> TRUE, dir |-> taskDir,
                                       number |-> nextNumber, file |-> fileName,
                                       repeats |-> Repeats]
                       /\ files' = IF taskDir \in dirs
                                   THEN [files EXCEPT ![taskDir] = @ \cup {fileName}]
                                   ELSE files

\* case 'start_new_report_file'
StartNewReportFile(suffix) ==
  /\ Called
  /\ UNCHANGED <<Tree, startedToday, clean>>
  /\ IF suffix = <<>>
     THEN /\ last' = Failure("start_new_report_file", suffix, "suffix is required")
          /\ UNCHANGED proposal
     ELSE LET taskDir == getCurrentTaskDir(link)
          IN  IF taskDir = NoDir
              THEN /\ last' = Failure("start_new_report_file", suffix, "No current task")
                   /\ UNCHANGED proposal
              ELSE LET nextNumber == findNextReportNumber(dirs, files, taskDir)
                       fileName == ReportFileName(nextNumber, suffix)
                       filePath == PathJoin(PathJoin(TasksName, taskDir), fileName)
                   IN  /\ last' = [Response("start_new_report_file", suffix) EXCEPT
                                     !.path = filePath, !.number = nextNumber,
                                     !.dir = taskDir]
                       /\ proposal' = [valid |-> TRUE, dir |-> taskDir,
                                       number |-> nextNumber, file |-> fileName,
                                       repeats |-> Repeats]

(***************************************************************************)
(* The environment: the agent writes report files itself, anyone may       *)
(* remove a directory or relink `current`, and days pass.                  *)
(***************************************************************************)
Written ==
  /\ steps < MaxSteps /\ steps' = steps + 1 /\ justCalled' = FALSE
  /\ UNCHANGED <<day, last, Apart>>

\* The agent creates the file that start_new_report_file proposed.
AgentCreateProposed ==
  /\ Written
  /\ proposal.valid /\ proposal.dir \in dirs
  /\ proposal.file \notin files[proposal.dir]
  /\ files' = [files EXCEPT ![proposal.dir] = @ \cup {proposal.file}]
  /\ UNCHANGED <<rootExists, dirs, link, History>>

\* The agent writes a file it numbered itself into the current task directory.
AgentWrite(name) ==
  /\ Written
  /\ LET taskDir == getCurrentTaskDir(link)
     IN  /\ taskDir \in dirs
         /\ name \notin files[taskDir]
         /\ files' = [files EXCEPT ![taskDir] = @ \cup {name}]
  /\ UNCHANGED <<rootExists, dirs, link, History>>

\* The directory `current` points to is removed; `current` is left as it is.
RemoveDir(d) ==
  /\ Written
  /\ d \in dirs
  /\ d = getCurrentTaskDir(link)
  /\ dirs' = dirs \ {d}
  /\ files' = [x \in dirs \ {d} |-> files[x]]
  /\ clean' = FALSE
  /\ UNCHANGED <<rootExists, link, startedToday, proposal>>

\* `current` is relinked by hand.
Relink(target) ==
  /\ Written
  /\ rootExists
  /\ link # target
  /\ link' = target
  /\ UNCHANGED <<rootExists, dirs, files, History>>

\* Midnight (UTC) passes.
Tick ==
  /\ steps < MaxSteps /\ steps' = steps + 1 /\ justCalled' = FALSE
  /\ day' = day + 1
  /\ startedToday' = NoneStartedToday
  /\ UNCHANGED <<Tree, last, clean, proposal, Apart>>

Next ==
  \/ CurrentTask
  \/ \E task_slug \in LabelArgs : StartNewTask(task_slug)
  \/ \E task_slug \in LabelArgs : SwitchTask(task_slug)
  \/ ListRecentTasks
  \/ \E suffix \in SuffixArgs : StartNewReportFile(suffix)
  \/ AgentCreateProposed
  \/ \E name \in AgentFiles : AgentWrite(name)
  \/ \E d \in dirs : RemoveDir(d)
  \/ \E target \in OobTargets : Relink(target)
  \/ Tick

Spec == Init /\ [][Next]_vars

\* The same program, started on a project whose current task is a long one.
SpecLarge == InitLarge /\ [][Next]_vars

(***************************************************************************)
(* The same program, started in a project where a regular file has the     *)
(* name of TASKS_DIR: mkdir, readdir and readlink under TASKS_DIR all      *)
(* fail until somebody removes the file.                                   *)
(***************************************************************************)
InitBlocked ==
  /\ rootIsFile = TRUE
  /\ rootExists = FALSE
  /\ dirs = {}
  /\ files = [d \in {} |-> {}]
  /\ link = NoLink
  /\ startedToday = NoneStartedToday
  /\ steps = 0
  /\ InitRun

\* The file in the place of TASKS_DIR is removed.
RootFileRemoved ==
  /\ steps < MaxSteps /\ steps' = steps + 1 /\ justCalled' = FALSE
  /\ rootIsFile
  /\ rootIsFile' = FALSE
  /\ UNCHANGED <<day, last, codec, calls, Tree, History>>

NextBlocked ==
  \/ Next
  \/ RootFileRemoved

SpecBlocked == InitBlocked /\ [][NextBlocked]_vars

(***************************************************************************)
(* The same program, started on a project in which start_new_task("x") has *)
(* succeeded twice today and the first of the two directories has been     *)
(* removed out of band since: the second one is left, and is current.      *)
(***************************************************************************)
SecondTaskX == CandidateName(getDateSuffix(BaseDay, 1), LabelX)

InitReuse ==
  /\ rootExists = TRUE
  /\ dirs = {SecondTaskX}
  /\ files = [d \in {SecondTaskX} |-> {}]
  /\ link = SecondTaskX
  /\ startedToday = [NoneStartedToday EXCEPT ![LabelX] = 2]
  /\ clean = FALSE
  /\ steps = 0
  /\ day = BaseDay
  /\ last = Response("none", <<>>)
  /\ justCalled = FALSE
  /\ proposal = NoProposal
  /\ codec = Encode(BaseDay, 0, 0, 1)
  /\ calls = NoCalls
  /\ rootIsFile = FALSE

SpecReuse == InitReuse /\ [][Next]_vars

(***************************************************************************)
(* The same program, started on a project with tasks of 10, 30, 31 and 40  *)
(* days ago, the latest of them current.                                   *)
(***************************************************************************)
\* The directory of the task that start_new_task(label) made `age` days
\* before day BaseDay with date suffix `index`.
AgedTask(age, index, label) ==
  CandidateName(getDateSuffix(BaseDay - age, index), label)

AgedTasks ==
  {AgedTask(RecentDays + 10, 0, LabelX),
   AgedTask(RecentDays + 1, 0, LabelX), AgedTask(RecentDays + 1, 1, LabelX),
   AgedTask(RecentDays, 0, LabelX), AgedTask(RecentDays, 1, LabelX),
   AgedTask(RecentDays, 0, LabelBX),
   AgedTask(10, 0, LabelX)}

InitRecent ==
  /\ rootExists = TRUE
  /\ dirs = AgedTasks
  /\ files = [d \in AgedTasks |-> {}]
  /\ link = AgedTask(10, 0, LabelX)
  /\ startedToday = NoneStartedToday
  /\ steps = 0
  /\ InitRest

SpecRecent == InitRecent /\ [][Next]_vars

(***************************************************************************)
(* The name codec alone, on a project in which nothing else happens: the   *)
(* index, the second index, the label and the day move one at a time.      *)
(***************************************************************************)
Quiet == <<Tree, last, steps, justCalled, History, calls, rootIsFile>>

InitCodec ==
  /\ rootExists = FALSE
  /\ dirs = {}
  /\ files = [d \in {} |-> {}]
  /\ link = NoLink
  /\ startedToday = NoneStartedToday
  /\ steps = 0
  /\ InitRest

CodecNextIndex ==
  /\ codec' = Encode(day, (codec.index + 1) % (MaxIndex + 1), codec.other, codec.l)
  /\ UNCHANGED <<day, Quiet>>

CodecNextOther ==
  /\ codec' = Encode(day, codec.index, (codec.other + 1) % (MaxIndex + 1), codec.l)
  /\ UNCHANGED <<day, Quiet>>

CodecNextLabel ==
  /\ codec' = Encode(day, codec.index, codec.other, (codec.l % Len(CodecLabels)) + 1)
  /\ UNCHANGED <<day, Quiet>>

\* Midnight (UTC) passes.
CodecTick ==
  /\ day < BaseDay + MaxSteps
  /\ day' = day + 1
  /\ codec' = Encode(day', codec.index, codec.other, codec.l)
  /\ UNCHANGED Quiet

NextCodec ==
  \/ CodecNextIndex
  \/ CodecNextOther
  \/ CodecNextLabel
  \/ CodecTick

SpecCodec == InitCodec /\ [][NextCodec]_vars

(***************************************************************************)
(* Interleaved tool calls: each client's start_new_task or switch_task     *)
(* runs from one await to the next, and the other client's steps may come  *)
(* in between.  Here `steps` counts the calls begun.                       *)
(***************************************************************************)
InitConc == InitTree /\ startedToday = NoneStartedToday /\ steps = 0 /\ InitRest

\* What no step of a call in flight changes.
Still == <<day, clean, proposal, codec, rootIsFile>>

NotInFlight(p) == calls[p].pc \in {"idle", "done"}

\* The handler of client p returns `response`.
Return(p, call, response) ==
  /\ calls' = [calls EXCEPT ![p] = [call EXCEPT !.pc = "done", !.response = response]]
  /\ last' = response
  /\ justCalled' = TRUE

\* The handler of client p goes on to its next await.
Await(p, call) ==
  /\ calls' = [calls EXCEPT ![p] = call]
  /\ justCalled' = FALSE
  /\ UNCHANGED last

\* case 'start_new_task', up to the return of findNextTaskDirName: the
\* check of the argument, the listing of the task root and the probe.
BeginStartNewTask(p, task_slug) ==
  /\ NotInFlight(p)
  /\ steps < MaxCalls /\ steps' = steps + 1
  /\ LET call == [IdleCall EXCEPT !.op = "start_new_task", !.slug = task_slug]
     IN  IF task_slug = <<>>
         THEN /\ Return(p, call, Failure("start_new_task", task_slug,
                                         "task_slug is required"))
              /\ UNCHANGED Tree
         ELSE LET taskDirName == findNextTaskDirName(dirs, day, day, task_slug)
              IN  /\ rootExists' = ListedRoot
                  /\ UNCHANGED <<dirs, files, link>>
                  /\ IF taskDirName = NoDir
                     THEN Return(p, call, Failure("start_new_task", task_slug,
                                                  "Too many tasks for today (max 26)"))
                     ELSE Await(p, [call EXCEPT !.pc = "mkdir", !.dir = taskDirName])
  /\ UNCHANGED <<startedToday, Still>>

\* case 'switch_task', up to the return of findTaskDirBySlug.
BeginSwitchTask(p, task_slug) ==
  /\ NotInFlight(p)
  /\ steps < MaxCalls /\ steps' = steps + 1
  /\ LET call == [IdleCall EXCEPT !.op = "switch_task", !.slug = task_slug]
     IN  IF task_slug = <<>>
         THEN /\ Return(p, call, Failure("switch_task", task_slug,
                                         "task_slug is required"))
              /\ UNCHANGED Tree
         ELSE LET taskDir == findTaskDirBySlug(dirs, task_slug)
              IN  /\ rootExists' = ListedRoot
                  /\ UNCHANGED <<dirs, files, link>>
                  /\ IF taskDir = NoDir
                     THEN Return(p, call, Failure("switch_task", task_slug,
                                                  "Task not found"))
                     ELSE Await(p, [call EXCEPT !.pc = "unlink", !.dir = taskDir])
  /\ UNCHANGED <<startedToday, Still>>

\* await fs.mkdir(taskPath, { recursive: true }): no error when the
\* directory is there already.
MakeDir(p) ==
  /\ calls[p].pc = "mkdir"
  /\ dirs' = dirs \cup {calls[p].dir}
  /\ files' = MkdirFiles(dirs, files, calls[p].dir)
  /\ Await(p, [calls[p] EXCEPT !.pc = "unlink"])
  /\ UNCHANGED <<rootExists, link, steps, startedToday, Still>>

\* updateCurrentSymlink: await fs.unlink(CURRENT_LINK), its error ignored.
Unlink(p) ==
  /\ calls[p].pc = "unlink"
  /\ link' = NoLink
  /\ Await(p, [calls[p] EXCEPT !.pc = "symlink"])
  /\ UNCHANGED <<rootExists, dirs, files, steps, startedToday, Still>>

\* updateCurrentSymlink: await fs.symlink(taskDir, CURRENT_LINK), which
\* throws EEXIST when `current` is there (again); the handler's catch turns
\* that into an error response.
Symlink(p) ==
  /\ calls[p].pc = "symlink"
  /\ IF link = NoLink
     THEN /\ link' = calls[p].dir
          /\ Await(p, [calls[p] EXCEPT !.pc = "info"])
     ELSE /\ UNCHANGED link
          /\ Return(p, calls[p], Failure(calls[p].op, calls[p].slug,
                                         "EEXIST: file already exists, symlink"))
  /\ UNCHANGED <<rootExists, dirs, files, steps, startedToday, Still>>

\* await getTaskInfo(taskDir) and the return of the TaskInfo.
GetInfo(p) ==
  /\ calls[p].pc = "info"
  /\ LET taskInfo == getTaskInfo(dirs, files, calls[p].dir)
     IN  Return(p, calls[p],
                [Response(calls[p].op, calls[p].slug) EXCEPT
                   !.found = taskInfo.found, !.info = taskInfo.info,
                   !.dir = calls[p].dir])
  /\ startedToday' =
       IF calls[p].op = "start_new_task" /\ calls[p].slug \in Labels
       THEN [startedToday EXCEPT ![calls[p].slug] = @ + 1]
       ELSE startedToday
  /\ UNCHANGED <<Tree, steps, Still>>

NextConc ==
  \E p \in Clients :
    \/ \E task_slug \in LabelArgs : BeginStartNewTask(p, task_slug)
    \/ \E task_slug \in LabelArgs : BeginSwitchTask(p, task_slug)
    \/ MakeDir(p)
    \/ Unlink(p)
    \/ Symlink(p)
    \/ GetInfo(p)

SpecConc == InitConc /\ [][NextConc]_vars

(***************************************************************************)
(* Properties.                                                             *)
(***************************************************************************)
\* A step that is a tool call; last' is then that call's response.
IsCallStep == steps' = steps + 1 /\ justCalled'

Succeeded(op) == justCalled /\ last.op = op /\ ~last.isError

\* The directories of the task root that are task directories labelled `label`.
TasksLabelled(ds, label) ==
  {d \in ds : parseTaskDirName(d).matched /\ parseTaskDirName(d).slug = label}

\* The name claimed for the k-th task started with `label` on day `today`:
\* the date, nothing for the first and the letters b, c, ... from the second
\* on, a hyphen and the label.
ClaimedDirName(today, k, label) ==
  DateStr(today) \o (IF k = 1 THEN <<>> ELSE <<CharB + (k - 2)>>)
    \o <<CharHyphen>> \o label

RECURSIVE DigitRun(_, _)
DigitRun(name, i) ==
  IF i <= Len(name) /\ IsDigit(name[i]) THEN DigitRun(name, i + 1) ELSE i - 1

IsNumberedReport(name) ==
  LET n == DigitRun(name, 1)
  IN  /\ n >= 1
      /\ Len(name) >= n + 4
      /\ name[n + 1] = CharHyphen
      /\ EndsWith(name, DotMd)

LeadingNumber(name) == ParseInt(SubSeq(name, 1, DigitRun(name, 1)))

NumberedReports(entries) == {f \in entries : IsNumberedReport(f)}

\* The claimed next report number: the greatest leading number of all the
\* report files, whatever their width, plus one; 1 when there are none.
ClaimedNextNumber(entries) ==
  LET numbers == {LeadingNumber(f) : f \in NumberedReports(entries)}
  IN  IF numbers = {} THEN 1
      ELSE (CHOOSE m \in numbers : \A k \in numbers : k <= m) + 1

\* C3: the path start_new_report_file returns names no file that exists in
\* the current task directory.
C3_ProposedFileIsNew ==
  (Succeeded("start_new_report_file") /\ last.dir \in dirs)
    => Basename(last.path) \notin files[last.dir]

\* C4: the next report number is the greatest leading number of all report
\* files of the task directory, of any digit width, plus one (1 when none).
C4_NextNumberIsMaxPlusOne ==
  (Succeeded("start_new_report_file") /\ last.dir \in dirs)
    => last.number = ClaimedNextNumber(files[last.dir])

\* C5: for a task directory with more than 50 report files the next report
\* number is still the greatest number of all of them plus one, wherever the
\* file carrying it sorts.
C5_NextNumberIgnoresWindow ==
  (/\ Succeeded("start_new_report_file")
   /\ last.dir \in dirs
   /\ Cardinality(NumberedReports(files[last.dir])) > WindowLimit)
    => last.number = ClaimedNextNumber(files[last.dir])

\* C6: when the caller has created the file proposed last for a task, the
\* next number proposed for that task is strictly greater.
C6_NumbersAdvance ==
  [][(/\ IsCallStep /\ last'.op = "start_new_report_file" /\ ~last'.isError
      /\ proposal.valid /\ proposal.dir = last'.dir
      /\ proposal.dir \in dirs /\ proposal.file \in files[proposal.dir])
       => last'.number > proposal.number]_vars

\* The current pointer resolves to no task: it is absent, its target
\* directory is missing, or its target's name is no task directory name.
Unresolvable ==
  \/ link = NoLink
  \/ Basename(link) \notin dirs
  \/ ~parseTaskDirName(Basename(link)).matched

\* C7: current_task with a dangling pointer, or one whose target name does
\* not parse, answers "no current task", never a TaskInfo.
C7_DanglingIsNoCurrentTask ==
  (justCalled /\ last.op = "current_task" /\ link # NoLink /\ Unresolvable)
    => ~last.found /\ last.error = "No current task"

\* C8: start_new_report_file without a resolvable current task fails with
\* "No current task" and returns no path.
C8_ReportNeedsCurrentTask ==
  (justCalled /\ last.op = "start_new_report_file" /\ last.arg # <<>> /\ Unresolvable)
    => last.isError /\ last.error = "No current task" /\ last.path = <<>>

\* C9: switch_task(label) with no task directory labelled `label` fails
\* with "Task not found" and leaves the current pointer as it was.
C9_SwitchNotFoundKeepsPointer ==
  [][(/\ IsCallStep /\ last'.op = "switch_task" /\ last'.arg # <<>>
      /\ TasksLabelled(dirs, last'.arg) = {})
       => /\ last'.isError /\ last'.error = "Task not found"
          /\ link' = link]_vars

\* switch_task found no task while a current task was set.
C9_Witness ==
  /\ justCalled /\ last.op = "switch_task" /\ last.error = "Task not found"
  /\ link = OldTaskX

\* C10: switch_task(label) succeeds when some task directory is labelled
\* exactly `label`, selects the one of them that sorts last, points
\* `current` at it and answers with its TaskInfo.
C10_SwitchSelectsLastExactMatch ==
  (justCalled /\ last.op = "switch_task" /\ TasksLabelled(dirs, last.arg) # {})
    => /\ ~last.isError
       /\ last.dir \in TasksLabelled(dirs, last.arg)
       /\ \A d \in TasksLabelled(dirs, last.arg) : d = last.dir \/ LexLess(d, last.dir)
       /\ link = last.dir
       /\ last.found
       /\ last.info = [task_slug |-> last.arg,
                       reports_dir |-> TasksName \o <<CharSlash>> \o last.dir,
                       report_file_names |-> getReportFiles(dirs, files, last.dir)]

\* switch_task("x") chose among two tasks "x" while a task "b-x" existed.
C10_Witness ==
  /\ Succeeded("switch_task") /\ last.arg = LabelX
  /\ Cardinality(TasksLabelled(dirs, LabelX)) >= 2
  /\ TasksLabelled(dirs, LabelBX) # {}

C14_RoundTrip ==
  codec.index < MaxProbe =>
    codec.parsed = [matched |-> TRUE, datePrefix |-> codec.datePrefix,
                    slug |-> codec.label]

\* The claimed date prefix of index i: the bare date for 0, the date and a
\* letter b..y for 1..24, the date, 'z' and the ordinal i + 1 padded to three
\* digits from 25 on.
ClaimedPrefix(today, i) ==
  DateStr(today) \o
    (IF i = 0 THEN <<>>
     ELSE IF i <= 24 THEN <<CharB + (i - 1)>>
     ELSE <<CharZ>> \o PadStart(Digits(i + 1), 3, CharZero))

\* C15: the date prefix of every index is the claimed one.
C15_PrefixFormat == codec.datePrefix = ClaimedPrefix(day, codec.index)

\* A call has just answered with the TaskInfo of an existing directory.
Answered == justCalled /\ last.found /\ last.dir \in dirs

\* The claimed window of a sorted listing: the whole of it up to 50 entries,
\* otherwise its first 20 entries followed by its last 30.
ClaimedWindow(sorted) ==
  LET n == Len(sorted)
  IN  IF n <= 50 THEN sorted
      ELSE SubSeq(sorted, 1, 20) \o SubSeq(sorted, n - 29, n)

\* C11: the report list of a TaskInfo is the claimed window of the sorted
\* list of the report files of the directory.
C11_BoundedListing ==
  Answered =>
    last.info.report_file_names =
      ClaimedWindow(SortNames(NumberedReports(files[last.dir])))

\* C12: up to the window limit, the report list of a TaskInfo holds exactly
\* the entries named digits, '-', anything, ".md", of any digit width, and
\* holds them in order of code units.
C12_ListingKeepsAnyWidth ==
  (Answered /\ Cardinality(NumberedReports(files[last.dir])) <= WindowLimit) =>
    LET names == last.info.report_file_names
    IN  /\ {names[i] : i \in 1..Len(names)} = NumberedReports(files[last.dir])
        /\ \A i \in 1..(Len(names) - 1) : LexLess(names[i], names[i + 1])

\* C16: with no out-of-band change of the task root, the k-th task started
\* on a day, whatever the labels of that day's tasks, gets no suffix for
\* k = 1, 'b' for k = 2, 'c' for k = 3, and so on.
C16_SuffixCountsTasksOfDay ==
  [][(IsCallStep /\ last'.op = "start_new_task" /\ ~last'.isError /\ clean')
       => last'.dir =
            ClaimedDirName(day', startedToday'[LabelX] + startedToday'[LabelBX],
                           last'.arg)]_vars

\* The day of 2025 that a date names.
DayOfDate(date) == CHOOSE n \in DOMAIN DateTable : DateTable[n] = date

\* The claimed answer of list_recent_tasks: the labels, in sorted order of
\* the directory names, of the task directories whose date, without any
\* suffix, is at most 30 days before today.
ClaimedRecentLabels(ds, today) ==
  LET recent == {d \in ds : /\ parseTaskDirName(d).matched
                            /\ DayOfDate(SubSeq(d, 1, 10)) >= today - 30}
      sorted == SortNames(recent)
  IN  [i \in 1..Len(sorted) |-> parseTaskDirName(sorted[i]).slug]

C18_ReportFileOnlyNames ==
  [][(IsCallStep /\ last'.op = "start_new_report_file")
       => /\ UNCHANGED <<rootExists, dirs, files, link>>
          /\ (justCalled /\ last.op = "start_new_report_file"
                /\ ~last.isError /\ ~last'.isError)
               => /\ last'.number = last.number
                  /\ (last'.arg = last.arg => last'.path = last.path)]_vars

\* start_new_report_file has answered twice in a row for yesterday's task:
\* number 3 both times, and no file 003-a.md.
C18_Witness ==
  /\ Succeeded("start_new_report_file") /\ proposal.repeats >= 1
  /\ last.dir = OldTaskX /\ last.number = 3
  /\ files[OldTaskX] = {File001a, File002b}

\* C19: a call without its required argument answers with the validation
\* error and leaves the task root, its directories, their files and the
\* pointer as they are; in particular it does not create the task root.
C19_ValidationTouchesNothing ==
  [][(/\ IsCallStep /\ last'.arg = <<>>
      /\ last'.op \in {"start_new_task", "switch_task", "start_new_report_file"})
       => /\ last'.isError
          /\ last'.error = (IF last'.op = "start_new_report_file"
                            THEN "suffix is required" ELSE "task_slug is required")
          /\ UNCHANGED <<rootExists, dirs, files, link>>]_vars

\* switch_task without a label has failed on a project with no _tasks
\* directory, and there is still none.
C19_Witness ==
  /\ justCalled /\ last.op = "switch_task" /\ last.arg = <<>>
  /\ last.error = "task_slug is required"
  /\ ~rootExists

\* Client p's start_new_task has returned a TaskInfo.
StartedOk(p) ==
  /\ calls[p].pc = "done" /\ calls[p].op = "start_new_task"
  /\ ~calls[p].response.isError

\* C20: two start_new_task calls never both succeed for one directory: the
\* one that finds the directory it picked already made fails.
C20_CreationConflictDetected ==
  \A p, q \in Clients :
    (p # q /\ StartedOk(p) /\ StartedOk(q))
      => calls[p].response.dir # calls[q].response.dir

ReadOnlyOps == {"current_task", "list_recent_tasks", "start_new_report_file"}

\* C22: the pointer `current` is changed only by a successful start_new_task
\* or switch_task: a call of current_task, list_recent_tasks or
\* start_new_report_file, and a call that returns an error, leaves the
\* pointer as it is, be it absent, dangling or valid.
C22_PointerChangedOnlyBySwitching ==
  [][IsCallStep =>
       /\ last'.op \in ReadOnlyOps => link' = link
       /\ link' # link =>
            last'.op \in {"start_new_task", "switch_task"} /\ ~last'.isError]_vars

\* current_task has answered while the pointer names a directory that is
\* gone, and the pointer is still there.
C22_Witness ==
  /\ justCalled
  /\ last.op = "current_task"
  /\ link # NoLink
  /\ getCurrentTaskDir(link) \notin dirs

\* C23: switch_task never creates a directory, whether it succeeds or fails
\* with not-found: after the call the task root has the directories it had,
\* and a task root that was not there is still not there.
C23_SwitchCreatesNoDirectory ==
  [][IsCallStep /\ last'.op = "switch_task" =>
       dirs' = dirs /\ rootExists' = rootExists]_vars

\* The task directories of a task root, in the order the catalog lists them.
TaskDirsOf(ds) == {d \in ds : parseTaskDirName(d).matched}

\* C24: the catalog's lexicographic order is the order of creation: in a task
\* root that only start_new_task has filled, the directory a successful
\* start_new_task creates sorts after every task directory that was there
\* before, whatever the labels and whether or not a day has passed between.
C24_CreationOrderIsSortOrder ==
  [][IsCallStep /\ clean /\ last'.op = "start_new_task" /\ ~last'.isError =>
       \A d \in TaskDirsOf(dirs) : LexLess(d, last'.dir)]_vars

\* The filesystem mutations of a step that the states before and after it
\* show: the directories created (the task root among them) and one more when
\* the pointer differs.  A call performs at least these.
VisibleMutations ==
  Cardinality(dirs' \ dirs)
    + (IF rootExists' /\ ~rootExists THEN 1 ELSE 0)
    + (IF link' # link THEN 1 ELSE 0)

\* C25: every tool call performs at most one filesystem mutation, counting
\* directory creations, link removals and link creations, and current_task,
\* list_recent_tasks and start_new_report_file perform none.
C25_AtMostOneMutation ==
  [][IsCallStep =>
       /\ VisibleMutations <= 1
       /\ last'.op \in ReadOnlyOps => VisibleMutations = 0]_vars

\* Whether every name findNextTaskDirName can probe for `label` on day `today`
\* is the name of a directory.
AllProbedTaken(ds, today, label) ==
  \A i \in 0..(MaxProbe - 1) : CandidateName(getDateSuffix(today, i), label) \in ds

\* C26: the probe space is unbounded: when the bare date and the letters b to
\* z are all taken for a label on a day, the next start_new_task for that
\* label on that day still succeeds and creates a directory that was not
\* there.
C26_ProbeSpaceUnbounded ==
  [][IsCallStep /\ last'.op = "start_new_task" /\ last'.arg \in Labels
       /\ day' = day /\ AllProbedTaken(dirs, day, last'.arg) =>
         /\ ~last'.isError
         /\ last'.dir \notin dirs
         /\ last'.dir \in dirs']_vars

\* C27: write_current replaces the pointer atomically: a pointer that is there
\* is there in every later state, during the replacement and after it, so
\* that a reader sees the old target or the new one and never no pointer.
C27_PointerNeverLost ==
  [][link # NoLink => link' # NoLink]_vars

\* C28: read failures are never surfaced: whatever is in the place of the
\* task root, of the pointer and of the directory it names, current_task and
\* list_recent_tasks never return an error result.
C28_ReadsNeverFail ==
  justCalled /\ last.op \in {"current_task", "list_recent_tasks"} => ~last.isError

\* list_recent_tasks has answered with no task while a regular file is in the
\* place of the task root.
C28_Witness ==
  /\ justCalled
  /\ last.op = "list_recent_tasks"
  /\ rootIsFile
  /\ last.slugs = <<>>

\* The pointer is absent, or a relative link that names a task directory of
\* the task root whose name parses.
PointerValid(ds, lnk) == lnk = NoLink \/ lnk \in TaskDirsOf(ds)

C30_FailedStartChangesNothing ==
  [][IsCallStep /\ last'.op = "start_new_task" /\ last'.arg # <<>> /\ last'.isError
       => /\ dirs' = dirs
          /\ files' = files
          /\ link' = link
          /\ rootExists' = rootExists]_vars

\* C31: switch_task(label) selects the most recently created task directory
\* with that label, also after a directory was removed out of band and its
\* name used again: a switch_task that directly follows a successful
\* start_new_task with the same label succeeds and selects the directory
\* that call created.
C31_SwitchSelectsLatestCreated ==
  [][Succeeded("start_new_task") /\ IsCallStep
       /\ last'.op = "switch_task" /\ last'.arg = last.arg
       => /\ ~last'.isError
          /\ last'.dir = last.dir
          /\ link' = last.dir]_vars

\* Client p's call has gone through updateCurrentSymlink and has returned.
Replaced(p) == calls[p].pc = "done" /\ calls[p].dir # NoDir

\* C32: when the pointer replacements of two calls interleave, then after
\* both calls have returned the pointer is there and names the target of a
\* call that reported success, and a call whose symlink failed has reported
\* an error and its target is not the current one.
C32_InterleavedReplacements ==
  (steps = 2 /\ \A p \in Clients : Replaced(p)) =>
    /\ link # NoLink
    /\ \E p \in Clients : ~calls[p].response.isError /\ calls[p].dir = link
    /\ \A p \in Clients : calls[p].response.isError => calls[p].dir # link

====
